---------------------------- MODULE Spec2Model ----------------------------
(***************************************************************************)
(* A model of the consensus rules of Floresta's pruned utreexo chain:      *)
(*   crates/floresta-chain/src/pruned_utreexo/consensus.rs                 *)
(* of the RPC method disconnect_node:                                      *)
(*   crates/floresta-node/src/json_rpc/network.rs                          *)
(* and of the initial block download as the tests of                       *)
(*   crates/floresta-wire/src/p2p_wire/tests/sync_node.rs                  *)
(* set it up.                                                              *)
(*                                                                         *)
(* verify_block_transactions is modelled as a state machine that runs the  *)
(* body of its `for` loop once per step; the pure helpers it calls         *)
(* (get_out_value, consume_utxos, validate_script_size, verify_coinbase)   *)
(* are operators, each returning the Result the Rust function returns.     *)
(***************************************************************************)
EXTENDS Integers, Sequences, FiniteSets, TLC

VARIABLES
    pc,            \* position: "call", "loop", "done", "ret", or the selector's phase
    utxos,         \* verify_block_transactions: the HashMap<OutPoint, TxOut>
    subsidy,       \* verify_block_transactions: the subsidy argument, <<>> until it is read
    n,             \* enumerate() index of the next transaction
    fee,           \* let mut fee
    wu,            \* let mut wu
    tx0,           \* transactions[0], read again after the loop
    result,        \* the value the function under test returned
    wrapped,       \* TRUE once an overflowing addition has wrapped (overflow checks off)
    hist,          \* history of the transactions the loop has gone through
    arg,           \* argument of the pure function under test
    node           \* the node an RPC handler talks to, or the syncing node; <<>> elsewhere

vars == <<pc, utxos, subsidy, n, fee, wu, tx0, result, wrapped, hist, arg, node>>

---------------------------------------------------------------------------
(* 64-bit unsigned integers.  TLC's integers are 32 bits wide, so a u64 is *)
(* written in base COIN_VALUE = 10^8 as <<hi, mid, lo>>, standing for      *)
(* hi * 10^16 + mid * 10^8 + lo.  Sats(btc, sat) is btc * COIN_VALUE + sat.*)

COIN_VALUE == 100000000

Sats(btc, sat) == <<btc \div COIN_VALUE, btc % COIN_VALUE, sat>>

ZERO == Sats(0, 0)

\* 2^64 = 18446744073709551616
TWO64 == <<1844, 67440737, 9551616>>

\* 2^63 = 9223372036854775808
TWO63 == <<922, 33720368, 54775808>>

\* 21_000_000 * 100_000_000, the literal of line 176
MAX_MONEY == Sats(21000000, 0)

Lt(a, b) ==
    \/ a[1] < b[1]
    \/ a[1] = b[1] /\ a[2] < b[2]
    \/ a[1] = b[1] /\ a[2] = b[2] /\ a[3] < b[3]

Gt(a, b) == Lt(b, a)

Le(a, b) == ~Lt(b, a)

\* The mathematical sum (no wrap): the high limb may exceed that of 2^64.
Plus(a, b) ==
    LET lo  == a[3] + b[3]
        mid == a[2] + b[2] + (lo \div COIN_VALUE)
    IN  <<a[1] + b[1] + (mid \div COIN_VALUE), mid % COIN_VALUE, lo % COIN_VALUE>>

\* a - b for a >= b
Minus(a, b) ==
    LET bl  == IF a[3] < b[3] THEN 1 ELSE 0
        lo  == a[3] + bl * COIN_VALUE - b[3]
        bm  == IF a[2] < b[2] + bl THEN 1 ELSE 0
        mid == a[2] + bm * COIN_VALUE - b[2] - bl
    IN  <<a[1] - b[1] - bm, mid, lo>>

\* u64 `+`: the sum modulo 2^64 (what a build without overflow checks computes)
Overflows(a, b) == Le(TWO64, Plus(a, b))

WrappingAdd(a, b) == IF Overflows(a, b) THEN Minus(Plus(a, b), TWO64) ELSE Plus(a, b)

RECURSIVE SumValues(_)
\* The mathematical sum of a sequence of u64 values
SumValues(vs) == IF vs = <<>> THEN ZERO ELSE Plus(vs[1], SumValues(Tail(vs)))

---------------------------------------------------------------------------
(* Results.  Ok is Ok(()); Err(kind) is a BlockValidationErrors variant    *)
(* that carries nothing; the other constructors carry what the Rust        *)
(* variants carry.  Panic is a Rust panic (index out of bounds, or an      *)
(* arithmetic overflow in a build with overflow checks).                   *)

Ok == [kind |-> "Ok"]

Err(kind) == [kind |-> kind]

UtxoAlreadySpent(txid) == [kind |-> "UtxoAlreadySpent", txid |-> txid]

InvalidCoinbase(detail) == [kind |-> "InvalidCoinbase", detail |-> detail]

\* TransactionError { txid, error }
TransactionError(txid, e) == [kind |-> "TransactionError", txid |-> txid, error |-> e]

Panic == [kind |-> "Panic"]

---------------------------------------------------------------------------
(* Scripts.  A ScriptBuf is the record [len, b0, b1, sigops]: its length,  *)
(* its first two bytes (0 where the script is too short to have them) and  *)
(* what count_sigops() returns for it.                                     *)

Script(len, b0, b1, sigops) == [len |-> len, b0 |-> b0, b1 |-> b1, sigops |-> sigops]

\* Script::witness_version(): Some(v) is <<v>>, None is <<>>.  A witness program
\* is 4..42 bytes: a version opcode (OP_0 = 0x00, OP_1..OP_16 = 0x51..0x60) and
\* one push (OP_PUSHBYTES_2..OP_PUSHBYTES_40) of all the remaining bytes.
witness_version(script) ==
    IF script.len < 4 \/ script.len > 42 THEN <<>>
    ELSE IF script.b1 < 2 \/ script.b1 > 40 THEN <<>>
    ELSE IF script.len - 2 # script.b1 THEN <<>>
    ELSE IF script.b0 = 0 THEN <<0>>
    ELSE IF script.b0 >= 81 /\ script.b0 <= 96 THEN <<script.b0 - 80>>
    ELSE <<>>

\* The same function with the upper limit excluded (`>= 520`)
validate_script_size_below_520(script) ==
    LET scriptpubkeysize == script.len
        is_taproot == witness_version(script) = <<1>> /\ scriptpubkeysize = 32
    IN  IF scriptpubkeysize >= 520 \/ (scriptpubkeysize < 2 /\ ~is_taproot)
        THEN Err("ScriptError")
        ELSE IF script.sigops > 80000
        THEN Err("ScriptError")
        ELSE Ok

\* The operator of line 248 as Rust parses it: `&&` binds tighter than `||`.
validate_script_size(script) ==
    LET scriptpubkeysize == script.len
        is_taproot == witness_version(script) = <<1>> /\ scriptpubkeysize = 32
    IN  IF scriptpubkeysize > 520 \/ (scriptpubkeysize < 2 /\ ~is_taproot)
        THEN Err("ScriptError")
        ELSE IF script.sigops > 80000
        THEN Err("ScriptError")
        ELSE Ok

---------------------------------------------------------------------------
(* Transactions.  An OutPoint is [txid, vout]; a TxIn is [previous_output, *)
(* script_sig]; a TxOut is [value, script_pubkey]; a Transaction is        *)
(* [txid, input, output] with `txid` what compute_txid() returns for it    *)
(* (a collision-free hash: distinct transactions carry distinct txids).    *)
(* Txid::all_zeros() is 0.  Witnesses are empty throughout.                *)

\* u32::MAX as the 32-bit pattern 0xFFFFFFFF
U32_MAX == -1

OutPoint(txid, vout) == [txid |-> txid, vout |-> vout]

TxIn(previous_output, script_sig) ==
    [previous_output |-> previous_output, script_sig |-> script_sig]

TxOut(value, script_pubkey) == [value |-> value, script_pubkey |-> script_pubkey]

Transaction(txid, input, output) == [txid |-> txid, input |-> input, output |-> output]

all_zeros == 0

compute_txid(transaction) == transaction.txid

\* OutPoint::is_null
is_null(outpoint) == outpoint.txid = all_zeros /\ outpoint.vout = U32_MAX

\* Transaction::is_coinbase
is_coinbase(transaction) ==
    Len(transaction.input) = 1 /\ is_null(transaction.input[1].previous_output)

\* Bytes of the VarInt that prefixes a script or a vector of the given length
VarIntSize(k) == IF k < 253 THEN 1 ELSE IF k <= 65535 THEN 3 ELSE 5

RECURSIVE InputsSize(_)
InputsSize(ins) ==
    IF ins = <<>> THEN 0
    ELSE 32 + 4 + VarIntSize(ins[1].script_sig.len) + ins[1].script_sig.len + 4
         + InputsSize(Tail(ins))

RECURSIVE OutputsSize(_)
OutputsSize(outs) ==
    IF outs = <<>> THEN 0
    ELSE 8 + VarIntSize(outs[1].script_pubkey.len) + outs[1].script_pubkey.len
         + OutputsSize(Tail(outs))

\* transaction.weight().to_wu() of a transaction without witness data: four
\* times its serialized size (version, inputs, outputs, lock time).  A
\* transaction without inputs is serialized with the segwit marker and flag,
\* two bytes that weigh one unit each.
Weight(transaction) ==
    4 * (4 + VarIntSize(Len(transaction.input)) + InputsSize(transaction.input)
           + VarIntSize(Len(transaction.output)) + OutputsSize(transaction.output) + 4)
      + (IF transaction.input = <<>> THEN 2 ELSE 0)

---------------------------------------------------------------------------
(* The helpers of verify_block_transactions.  A helper that takes `&mut`   *)
(* arguments returns a record with the Result (`res`), the arguments as    *)
(* it leaves them, and `overflow`: whether its `+=` overflowed 64 bits.    *)

get_out_value(out, value_var) ==
    IF Gt(out.value, ZERO)
    THEN [res       |-> Ok,
          value_var |-> WrappingAdd(value_var, out.value),
          overflow  |-> Overflows(value_var, out.value)]
    ELSE [res |-> Err("InvalidOutput"), value_var |-> value_var, overflow |-> FALSE]

\* HashMap::remove
Remove(map, key) == [k \in DOMAIN map \ {key} |-> map[k]]

\* The same function without the `utxos.remove(..)` of line 222
consume_utxos_keeps_entry(input, map, value_var) ==
    IF input.previous_output \in DOMAIN map
    THEN LET prevout == map[input.previous_output]
         IN  [res       |-> Ok,
              utxos     |-> map,
              value_var |-> WrappingAdd(value_var, prevout.value),
              overflow  |-> Overflows(value_var, prevout.value)]
    ELSE [res       |-> UtxoAlreadySpent(input.previous_output.txid),
          utxos     |-> map,
          value_var |-> value_var,
          overflow  |-> FALSE]

consume_utxos(input, map, value_var) ==
    IF input.previous_output \in DOMAIN map
    THEN LET prevout == map[input.previous_output]
         IN  [res       |-> Ok,
              utxos     |-> Remove(map, input.previous_output),
              value_var |-> WrappingAdd(value_var, prevout.value),
              overflow  |-> Overflows(value_var, prevout.value)]
    ELSE [res       |-> UtxoAlreadySpent(input.previous_output.txid),
          utxos     |-> map,
          value_var |-> value_var,
          overflow  |-> FALSE]

verify_coinbase(transaction, index) ==
    IF index # 0 THEN Err("FirstTxIsnNotCoinbase")
    ELSE IF transaction.input = <<>> THEN Panic
    ELSE IF transaction.input[1].previous_output.txid # all_zeros
    THEN InvalidCoinbase("Invalid coinbase txid")
    ELSE LET scriptsigsize == transaction.input[1].script_sig.len
         IN  IF ~(2 <= scriptsigsize /\ scriptsigsize <= 100)
             THEN InvalidCoinbase("Invalid ScriptSig size")
             ELSE Ok

\* `expr.map_err(|err| TransactionError { txid, error: err });` as a statement:
\* the Result is mapped and dropped (there is no `?`), and the locals `st` are
\* what they were.
MapErrDropped(res, txid, st) == st

RECURSIVE OutputLoop(_, _, _)
\* for output in transaction.output.iter() { .. }   (lines 144-153)
OutputLoop(outs, txid, st) ==
    IF outs = <<>> THEN st
    ELSE LET r  == get_out_value(outs[1], st.output_value)
             s1 == MapErrDropped(r.res, txid,
                                 [st EXCEPT !.output_value = r.value_var,
                                            !.overflow = st.overflow \/ r.overflow])
             s2 == MapErrDropped(validate_script_size(outs[1].script_pubkey), txid, s1)
         IN  OutputLoop(Tail(outs), txid, s2)

RECURSIVE InputLoop(_, _, _)
\* for input in transaction.input.iter() { .. }   (lines 156-167)
InputLoop(ins, txid, st) ==
    IF ins = <<>> THEN st
    ELSE LET r  == consume_utxos(ins[1], st.utxos, st.in_value)
             s1 == MapErrDropped(r.res, txid,
                                 [st EXCEPT !.utxos = r.utxos,
                                            !.in_value = r.value_var,
                                            !.overflow = st.overflow \/ r.overflow])
             s2 == MapErrDropped(validate_script_size(ins[1].script_sig), txid, s1)
         IN  InputLoop(Tail(ins), txid, s2)

\* if output_value > in_value   (line 169)
NotEnoughMoney(output_value, in_value) == Gt(output_value, in_value)

\* The same test with the bound taken one too low
TooManyCoinsFromMax(output_value) == Le(MAX_MONEY, output_value)

\* if output_value > 21_000_000 * 100_000_000   (line 176)
TooManyCoins(output_value) == Gt(output_value, MAX_MONEY)

\* One pass through the body of the `for` loop (lines 131-195) for transaction
\* number `index`, from the locals `map`, `fee0`, `wu0`.  `ret` is <<r>> when the
\* pass returns r from the function and <<>> when the loop goes on; `overflow`
\* tells whether an addition of the pass overflowed (the values are then the
\* wrapped ones, and a build with overflow checks panics instead).
LoopBody(transaction, index, map, fee0, wu0) ==
    LET txid == compute_txid(transaction)
        s0   == [output_value |-> ZERO, in_value |-> ZERO, utxos |-> map,
                 fee |-> fee0, wu |-> wu0, overflow |-> FALSE]
    IN  IF is_coinbase(transaction) /\ index = 0
        THEN [ret |-> <<>>,
              st  |-> MapErrDropped(verify_coinbase(transaction, index), txid, s0)]
        ELSE LET s1 == OutputLoop(transaction.output, txid, s0)
                 s2 == InputLoop(transaction.input, txid, s1)
             IN  IF NotEnoughMoney(s2.output_value, s2.in_value)
                 THEN [ret |-> <<TransactionError(txid, Err("NotEnoughMoney"))>>, st |-> s2]
                 ELSE IF TooManyCoins(s2.output_value)
                 THEN [ret |-> <<Err("TooManyCoins")>>, st |-> s2]
                 ELSE LET d == Minus(s2.in_value, s2.output_value)
                      IN  [ret |-> <<>>,
                           st  |-> [s2 EXCEPT !.fee = WrappingAdd(fee0, d),
                                              !.wu = wu0 + Weight(transaction),
                                              !.overflow = s2.overflow \/ Overflows(fee0, d)]]

RECURSIVE Fold(_, _)
\* transactions[0].output.iter().fold(0, |acc, out| acc + out.value.to_sat())
Fold(outs, acc) ==
    IF outs = <<>> THEN acc
    ELSE Fold(Tail(outs), [value    |-> WrappingAdd(acc.value, outs[1].value),
                           overflow |-> acc.overflow \/ Overflows(acc.value, outs[1].value)])

\* The tail of the function (lines 196-209), from the locals the loop left
AfterLoop(transactions0, fee0, wu0, subsidy0) ==
    IF wu0 > 4000000
    THEN [ret |-> Err("BlockTooBig"), overflow |-> FALSE]
    ELSE LET out == Fold(transactions0.output, [value |-> ZERO, overflow |-> FALSE])
         IN  [ret |-> IF Lt(WrappingAdd(fee0, subsidy0), out.value)
                      THEN Err("BadCoinbaseOutValue")
                      ELSE Ok,
              overflow |-> Overflows(fee0, subsidy0) \/ out.overflow]

---------------------------------------------------------------------------
(* The inputs verify_block_transactions is run on.  `height`,              *)
(* `verify_script` and `flags` are not modelled: the function reads them   *)
(* only under the `bitcoinconsensus` feature, where the Result of the      *)
(* script check is dropped like the others.                                *)

\* The longest block
MaxTxs == 2

\* 76a914..88ac, the 25-byte P2PKH script of the tests (one OP_CHECKSIG)
P2PKH == Script(25, 118, 169, 1)

\* 03f0a2a4d9f0a2, the script-sig of the tests' valid coinbase
CoinbaseSig == Script(7, 3, 240, 0)

\* A script of a million zero bytes: too long for every size rule, and heavy
HugeSig == Script(1000000, 0, 0, 0)

NullOutPoint == OutPoint(all_zeros, U32_MAX)

OutPointA == OutPoint(1, 0)

\* An input names the null outpoint (under a valid or an oversized coinbase
\* script-sig) or outpoint A
TxIns ==
    {TxIn(NullOutPoint, CoinbaseSig), TxIn(NullOutPoint, HugeSig), TxIn(OutPointA, CoinbaseSig)}

\* 0, 1, 21e6 * 1e8 and 2^63 satoshis
OutValues == {ZERO, Sats(0, 1), MAX_MONEY, TWO63}

TxOuts == {TxOut(v, P2PKH) : v \in OutValues}

\* Transactions have one or two inputs and one or two outputs
InputLists == {<<i>> : i \in TxIns} \cup {<<i, j>> : i \in TxIns, j \in TxIns}

OutputLists == {<<o>> : o \in TxOuts} \cup {<<o, p>> : o \in TxOuts, p \in TxOuts}

\* The UTXO map is empty or holds outpoint A, worth 1 or 21e6 * 1e8 + 1 satoshis.
\* Its values sum below 2^64, as the amounts of a UTXO set do: in_value, the sum
\* of spent values, does not overflow (output_value, fee + subsidy and the
\* coinbase fold, sums of amounts the block supplies, can).
UtxoValues == {Sats(0, 1), Sats(21000000, 1)}

UtxoMaps ==
    UNION {[S -> {TxOut(v, P2PKH) : v \in UtxoValues}] : S \in SUBSET {OutPointA}}

Subsidies == {ZERO, Sats(50, 0)}

\* The txid of the transaction at index i of the block
TxidAt(i) == 10 + i

Running == [kind |-> "Running"]

---------------------------------------------------------------------------
(* History.  `hist` records what the block's transactions were, in the     *)
(* terms the properties are stated in; no action reads it.                 *)

RECURSIVE SpentValues(_, _)
\* The values of the UTXO-map entries the inputs spend (remove), in order
SpentValues(ins, map) ==
    IF ins = <<>> THEN <<>>
    ELSE IF ins[1].previous_output \in DOMAIN map
    THEN <<map[ins[1].previous_output].value>>
         \o SpentValues(Tail(ins), Remove(map, ins[1].previous_output))
    ELSE SpentValues(Tail(ins), map)

OutputValues(outs) == [i \in 1..Len(outs) |-> outs[i].value]

NamedBy(ins) == {ins[i].previous_output : i \in 1..Len(ins)}

NamesTwice(ins, named) ==
    \/ \E i \in 1..Len(ins) : ins[i].previous_output \in named
    \/ \E i, j \in 1..Len(ins) : i < j /\ ins[i].previous_output = ins[j].previous_output

RECURSIVE NamesAbsent(_, _)
\* Whether an input names an outpoint that is not in the map when its turn comes
NamesAbsent(ins, map) ==
    IF ins = <<>> THEN FALSE
    ELSE \/ ins[1].previous_output \notin DOMAIN map
         \/ NamesAbsent(Tail(ins), Remove(map, ins[1].previous_output))

NoHist ==
    [missing_input |-> FALSE, zero_output |-> FALSE, named |-> {},
     double_spend |-> FALSE, late_coinbase |-> FALSE, overspend |-> FALSE,
     last |-> <<>>, in_total |-> ZERO, out_total |-> ZERO, block_weight |-> 0]

\* The history after the loop went through `transaction` at `index`, with the
\* UTXO map `map` before it, and returned `ret` (<<>>: the loop goes on)
HistAfter(h, transaction, index, map, ret) ==
    LET coinbase == is_coinbase(transaction)
        in_sum   == SumValues(SpentValues(transaction.input, map))
        out_sum  == SumValues(OutputValues(transaction.output))
    IN  [missing_input |-> h.missing_input
                           \/ (~coinbase /\ NamesAbsent(transaction.input, map)),
         zero_output   |-> h.zero_output
                           \/ (~coinbase /\ \E i \in 1..Len(transaction.output) :
                                               transaction.output[i].value = ZERO),
         named         |-> IF coinbase THEN h.named
                           ELSE h.named \cup NamedBy(transaction.input),
         double_spend  |-> h.double_spend
                           \/ (~coinbase /\ NamesTwice(transaction.input, h.named)),
         late_coinbase |-> h.late_coinbase \/ (coinbase /\ index > 0),
         overspend     |-> h.overspend \/ (~coinbase /\ Gt(out_sum, in_sum)),
         last          |-> IF coinbase THEN <<>>
                           ELSE <<[txid |-> compute_txid(transaction), in_sum |-> in_sum,
                                   out_sum |-> out_sum, ret |-> ret]>>,
         in_total      |-> IF coinbase THEN h.in_total ELSE Plus(h.in_total, in_sum),
         out_total     |-> IF coinbase THEN h.out_total ELSE Plus(h.out_total, out_sum),
         block_weight  |-> h.block_weight + Weight(transaction)]

---------------------------------------------------------------------------
(* verify_block_transactions(height, utxos, transactions, subsidy, ..).    *)
(* The state after Init is the function's entry; the transactions of the   *)
(* slice are drawn as the loop reaches them, and the subsidy when the      *)
(* function reads it, after the loop.                                      *)

InitBlock ==
    /\ node = <<>>
    /\ pc = "loop"
    /\ utxos \in UtxoMaps
    /\ subsidy = <<>>
    /\ n = 0
    /\ fee = ZERO
    /\ wu = 0
    /\ tx0 = <<>>
    /\ result = Running
    /\ wrapped = FALSE
    /\ hist = NoHist
    /\ arg = <<>>

\* if transactions.is_empty() { return Err(EmptyBlock) }
EmptyBlock ==
    /\ pc = "loop" /\ n = 0
    /\ pc' = "done"
    /\ result' = Err("EmptyBlock")
    /\ UNCHANGED <<utxos, subsidy, n, fee, wu, tx0, wrapped, hist, arg, node>>

\* One iteration of the loop, on the transaction at index n
VerifyTx ==
    /\ pc = "loop" /\ n < MaxTxs
    /\ \E ins \in InputLists, outs \in OutputLists :
         \E transaction \in {Transaction(TxidAt(n), ins, outs)} :
         \E o \in {LoopBody(transaction, n, utxos, fee, wu)} :
             /\ wrapped' = (wrapped \/ o.st.overflow)
             /\ utxos' = o.st.utxos
             /\ fee' = o.st.fee
             /\ wu' = o.st.wu
             /\ tx0' = IF n = 0 THEN <<transaction>> ELSE tx0
             /\ hist' = HistAfter(hist, transaction, n, utxos, o.ret)
             /\ IF o.ret = <<>>
                THEN pc' = "loop" /\ result' = result
                ELSE pc' = "done" /\ result' = o.ret[1]
    /\ n' = n + 1
    /\ UNCHANGED <<subsidy, arg, node>>

\* The same iteration in a build with overflow checks, when one of its additions
\* overflows: the thread panics.  No addition has wrapped before.
VerifyTxPanics ==
    /\ pc = "loop" /\ n < MaxTxs /\ ~wrapped
    /\ \E ins \in InputLists, outs \in OutputLists :
         \E transaction \in {Transaction(TxidAt(n), ins, outs)} :
         \E o \in {LoopBody(transaction, n, utxos, fee, wu)} :
             /\ o.st.overflow
             /\ tx0' = IF n = 0 THEN <<transaction>> ELSE tx0
             /\ hist' = HistAfter(hist, transaction, n, utxos, <<Panic>>)
    /\ pc' = "done"
    /\ result' = Panic
    /\ n' = n + 1
    /\ UNCHANGED <<utxos, subsidy, fee, wu, wrapped, arg, node>>

\* The loop is over: the block weight and the coinbase value
Finish ==
    /\ pc = "loop" /\ n > 0
    /\ \E s \in Subsidies :
       \E o \in {AfterLoop(tx0[1], fee, wu, s)} :
           /\ subsidy' = <<s>>
           /\ result' = o.ret
           /\ wrapped' = (wrapped \/ o.overflow)
    /\ pc' = "done"
    /\ UNCHANGED <<utxos, n, fee, wu, tx0, hist, arg, node>>

\* The same in a build with overflow checks, when `fee + subsidy` or the fold
\* over the coinbase outputs overflows
FinishPanics ==
    /\ pc = "loop" /\ n > 0 /\ ~wrapped
    /\ \E s \in Subsidies :
           /\ AfterLoop(tx0[1], fee, wu, s).overflow
           /\ subsidy' = <<s>>
    /\ pc' = "done"
    /\ result' = Panic
    /\ UNCHANGED <<utxos, n, fee, wu, tx0, wrapped, hist, arg, node>>

NextBlock == EmptyBlock \/ VerifyTx \/ VerifyTxPanics \/ Finish \/ FinishPanics

SpecBlock == InitBlock /\ [][NextBlock]_vars

---------------------------------------------------------------------------
(* Properties of verify_block_transactions, under SpecBlock.               *)

Accepted == pc = "done" /\ result = Ok

\* The sum of the output values of transactions[0]
CoinbaseOutSum == SumValues(OutputValues(tx0[1].output))

\* C1: a block in which an input of a non-coinbase transaction names an outpoint
\* that is absent from the UTXO map when the input is reached (never there, or
\* consumed earlier in the block) is rejected.  (The claim goes on to name the
\* error, UtxoAlreadySpent with the outpoint's txid; an error presupposes the
\* rejection stated here.)
C1_MissingInputRejected == (pc = "done" /\ hist.missing_input) => result # Ok

\* C2: in an accepted block no outpoint is named by more than one input of the
\* non-coinbase transactions.
C2_NoDoubleSpendAccepted == Accepted => ~hist.double_spend

\* C3: the block weight is taken over all the transactions of the block, the
\* coinbase included, so that an accepted block weighs at most 4,000,000 units.
C3_BlockWeightBounded == Accepted => hist.block_weight <= 4000000

\* C4: a block is accepted only if transactions[0] is a coinbase that passes
\* verify_coinbase at index 0 and no later transaction is a coinbase.
C4_CoinbaseFirstAndOnly ==
    Accepted => /\ is_coinbase(tx0[1])
                /\ verify_coinbase(tx0[1], 0) = Ok
                /\ ~hist.late_coinbase

\* C5: in an accepted block the coinbase output sum is at most the subsidy plus
\* the fees (input sum minus output sum) of the non-coinbase transactions.
C5_CoinbaseValueBounded ==
    Accepted => Le(Plus(CoinbaseOutSum, hist.out_total), Plus(subsidy[1], hist.in_total))

\* C6: no non-coinbase transaction of an accepted block has an output sum above
\* its input sum, and the pass over a transaction that has returns
\* NotEnoughMoney in a TransactionError with that transaction's txid.
C6_NoInflation ==
    /\ Accepted => ~hist.overspend
    /\ \A i \in 1..Len(hist.last) :
         Gt(hist.last[i].out_sum, hist.last[i].in_sum)
            => hist.last[i].ret = <<TransactionError(hist.last[i].txid, Err("NotEnoughMoney"))>>

\* C7: a block with a non-coinbase transaction that has an output of exactly 0
\* satoshis is rejected.  (The claim goes on to name the error, InvalidOutput;
\* an error presupposes the rejection stated here.)
C7_ZeroOutputRejected == (pc = "done" /\ hist.zero_output) => result # Ok

\* C9: the pass over a non-coinbase transaction whose outputs sum to exactly
\* 21,000,000 * 100,000,000 satoshis, covered by its inputs, returns no error,
\* and the pass over one whose outputs sum to one satoshi more, covered by its
\* inputs, returns TooManyCoins.
C9_TooManyCoinsBoundary ==
    \A i \in 1..Len(hist.last) :
        LET l == hist.last[i]
        IN  Le(l.out_sum, l.in_sum)
            => /\ l.out_sum = MAX_MONEY => l.ret = <<>>
               /\ l.out_sum = Plus(MAX_MONEY, Sats(0, 1))
                    => l.ret = <<Err("TooManyCoins")>> /\ result = Err("TooManyCoins")

\* After a coinbase, the pass over a transaction that spends a UTXO of
\* 21e6 * 1e8 + 1 satoshis into outputs of that sum has returned TooManyCoins
C9_Witness ==
    /\ n = 2
    /\ is_coinbase(tx0[1])
    /\ result = Err("TooManyCoins")
    /\ hist.last[1].out_sum = Plus(MAX_MONEY, Sats(0, 1))
    /\ hist.last[1].in_sum = Plus(MAX_MONEY, Sats(0, 1))

---------------------------------------------------------------------------
(* validate_script_size(script), called on its own.                        *)

\* The longest script but one: the lengths 0..MaxScriptLen surround both limits
MaxScriptLen == 522

\* The scripts: all zero bytes, or led by OP_0 / OP_1 / OP_DUP and then a push
\* of 30 or 32 bytes (OP_1 PUSHBYTES_30 at length 32 is the v1 witness program
\* of length 32; OP_1 PUSHBYTES_32 at length 34 is P2TR), with no sigop, one per
\* byte, or the most count_sigops() can find, 20 per byte.  A script of 4001
\* bytes is the shortest that can hold more than 80,000 sigops.
Scripts ==
    {Script(len, b0, b1, sigops) :
        len \in (0..MaxScriptLen) \cup {4001}, b0 \in {0, 81, 118}, b1 \in {0, 30, 32},
        sigops \in {0, 1, 80000, 80020}}

\* The scripts that can exist: the bytes b0 and b1 are there only in a script
\* long enough, a witness program holds no sigop, no script more than 20 a byte
IsScript(script) ==
    /\ script.len < 1 => script.b0 = 0
    /\ script.len < 2 => script.b1 = 0
    /\ script.sigops <= 20 * script.len
    /\ witness_version(script) # <<>> => script.sigops = 0

InitScript ==
    /\ node = <<>>
    /\ pc = "call"
    /\ arg \in {script \in Scripts : IsScript(script)}
    /\ utxos = <<>>
    /\ subsidy = <<>>
    /\ n = 0
    /\ fee = ZERO
    /\ wu = 0
    /\ tx0 = <<>>
    /\ result = Running
    /\ wrapped = FALSE
    /\ hist = NoHist

CallValidateScriptSize ==
    /\ pc = "call"
    /\ pc' = "ret"
    /\ result' = validate_script_size(arg)
    /\ UNCHANGED <<utxos, subsidy, n, fee, wu, tx0, wrapped, hist, arg, node>>

NextScript == CallValidateScriptSize

SpecScript == InitScript /\ [][NextScript]_vars

\* C8: validate_script_size accepts a script of at most 80,000 sigops exactly
\* when its length is 2..520 or it is a v1 witness program of length 32; the
\* lengths 1 and 521 yield ScriptError, the lengths 2 and 520 are accepted.
C8_ScriptSizeAccepted ==
    pc = "ret" =>
        /\ arg.sigops <= 80000
             => (result = Ok <=> \/ (2 <= arg.len /\ arg.len <= 520)
                                 \/ (witness_version(arg) = <<1>> /\ arg.len = 32))
        /\ arg.len \in {1, 521} => result = Err("ScriptError")
        /\ (arg.len \in {2, 520} /\ arg.sigops <= 80000) => result = Ok

\* A script of exactly 520 bytes has been accepted
C8_Witness == pc = "ret" /\ arg.len = 520 /\ arg.sigops = 1 /\ result = Ok

---------------------------------------------------------------------------
(* verify_coinbase(transaction, index), called on its own.                 *)

\* The longest script-sig but one: the lengths 0..MaxSigLen surround both limits
MaxSigLen == 102

\* The first input: the null outpoint, an all-zero txid under vout 0 (the
\* coinbase of the tests) or outpoint A, under a script-sig of any length
FirstInputs ==
    {TxIn(o, Script(len, 0, 0, 0)) :
        o \in {NullOutPoint, OutPoint(all_zeros, 0), OutPointA}, len \in 0..MaxSigLen}

\* No input, one, or a second one after it; index is a u16
CoinbaseArgs ==
    {[transaction |-> Transaction(TxidAt(0), ins, <<TxOut(Sats(50, 350000), P2PKH)>>),
      index |-> index] :
        ins \in {<<>>} \cup {<<i>> : i \in FirstInputs}
                      \cup {<<i, j>> : i \in FirstInputs, j \in TxIns},
        index \in {0, 1, 65535}}

InitCoinbase ==
    /\ node = <<>>
    /\ pc = "call"
    /\ arg \in CoinbaseArgs
    /\ utxos = <<>>
    /\ subsidy = <<>>
    /\ n = 0
    /\ fee = ZERO
    /\ wu = 0
    /\ tx0 = <<>>
    /\ result = Running
    /\ wrapped = FALSE
    /\ hist = NoHist

CallVerifyCoinbase ==
    /\ pc = "call"
    /\ pc' = "ret"
    /\ result' = verify_coinbase(arg.transaction, arg.index)
    /\ UNCHANGED <<utxos, subsidy, n, fee, wu, tx0, wrapped, hist, arg, node>>

NextCoinbase == CallVerifyCoinbase

SpecCoinbase == InitCoinbase /\ [][NextCoinbase]_vars

\* C10: verify_coinbase returns Ok exactly when index is 0, the transaction has
\* exactly one input, that input's previous-outpoint txid is all-zero and its
\* script-sig is 2..100 bytes long; otherwise FirstTxIsNotCoinbase when index is
\* not 0, else InvalidCoinbase("Invalid coinbase txid") when the txid is not
\* zero, else InvalidCoinbase("Invalid ScriptSig size").
C10_VerifyCoinbase ==
    pc = "ret" =>
        LET input == arg.transaction.input
            one   == Len(input) = 1
            zero  == one /\ input[1].previous_output.txid = all_zeros
            sized == one /\ 2 <= input[1].script_sig.len /\ input[1].script_sig.len <= 100
        IN  /\ result = Ok <=> (arg.index = 0 /\ one /\ zero /\ sized)
            /\ arg.index # 0 => result = Err("FirstTxIsnNotCoinbase")
            /\ (arg.index = 0 /\ one /\ ~zero) => result = InvalidCoinbase("Invalid coinbase txid")
            /\ (arg.index = 0 /\ zero /\ ~sized) => result = InvalidCoinbase("Invalid ScriptSig size")

---------------------------------------------------------------------------
(* consume_utxos(input, utxos, value_var), called on its own, several      *)
(* times over the same map and the same running value, as the input loop   *)
(* of verify_block_transactions and test_consume_utxos call it.            *)

\* The most calls in a row
MaxCalls == 2

\* Outpoint B shares its txid with A; C has another txid; D is in no map
OutPointB == OutPoint(1, 1)

OutPointC == OutPoint(2, 0)

OutPointD == OutPoint(3, 0)

\* 18,000,000 satoshis (the prevout of test_consume_utxos) or 21e6 * 1e8 + 1
ConsumeValues == {Sats(0, 18000000), Sats(21000000, 1)}

ConsumeMaps ==
    UNION {[S -> {TxOut(v, P2PKH) : v \in ConsumeValues}] :
              S \in SUBSET {OutPointA, OutPointB, OutPointC}}

ConsumeInputs ==
    {TxIn(o, CoinbaseSig) : o \in {OutPointA, OutPointB, OutPointC, OutPointD}}

\* `hist` is here the sequence of the calls made: the input, the map and the
\* value before the call, and the Result
InitConsume ==
    /\ node = <<>>
    /\ pc = "call"
    /\ utxos \in ConsumeMaps
    /\ arg \in {[input |-> <<>>, value_var |-> v] : v \in {ZERO, Sats(0, 1)}}
    /\ hist = <<>>
    /\ subsidy = <<>>
    /\ n = 0
    /\ fee = ZERO
    /\ wu = 0
    /\ tx0 = <<>>
    /\ result = Running
    /\ wrapped = FALSE

CallConsumeUtxos ==
    /\ pc = "call" /\ n < MaxCalls
    /\ \E input \in ConsumeInputs :
       \E o \in {consume_utxos(input, utxos, arg.value_var)} :
           /\ utxos' = o.utxos
           /\ arg' = [input |-> input, value_var |-> o.value_var]
           /\ result' = o.res
           /\ wrapped' = (wrapped \/ o.overflow)
           /\ hist' = Append(hist, [input |-> input, utxos |-> utxos,
                                    value_var |-> arg.value_var, res |-> o.res])
    /\ n' = n + 1
    /\ UNCHANGED <<pc, subsidy, fee, wu, tx0, node>>

NextConsume == CallConsumeUtxos

SpecConsume == InitConsume /\ [][NextConsume]_vars

\* C11: a call of consume_utxos whose outpoint is in the map returns Ok,
\* removes exactly that entry (every other entry is as it was) and adds the
\* entry's amount to the value; a call whose outpoint is not in the map returns
\* UtxoAlreadySpent with the outpoint's txid and leaves the map and the value as
\* they were; so a call for an outpoint that an earlier call consumed fails with
\* UtxoAlreadySpent.
C11_ConsumeUtxosFrame ==
    /\ hist # <<>> =>
         LET call     == hist[Len(hist)]
             outpoint == call.input.previous_output
         IN  IF outpoint \in DOMAIN call.utxos
             THEN /\ result = Ok
                  /\ DOMAIN utxos = DOMAIN call.utxos \ {outpoint}
                  /\ \A k \in DOMAIN utxos : utxos[k] = call.utxos[k]
                  /\ arg.value_var = Plus(call.value_var, call.utxos[outpoint].value)
             ELSE /\ result = UtxoAlreadySpent(outpoint.txid)
                  /\ utxos = call.utxos
                  /\ arg.value_var = call.value_var
    /\ \A i, j \in 1..Len(hist) :
         (i < j /\ hist[i].res = Ok
                /\ hist[j].input.previous_output = hist[i].input.previous_output)
            => hist[j].res = UtxoAlreadySpent(hist[j].input.previous_output.txid)

\* Outpoint A, worth 18,000,000 satoshis, was consumed by a first call, and a
\* second call for it has failed, the map and the value unchanged: the other
\* entries are in the map still
C11_Witness ==
    /\ Len(hist) = 2
    /\ hist[1].input.previous_output = OutPointA /\ hist[1].res = Ok
    /\ hist[2].input.previous_output = OutPointA
    /\ result = UtxoAlreadySpent(1)
    /\ arg.value_var = Sats(0, 18000000)
    /\ DOMAIN utxos = {OutPointB, OutPointC}

---------------------------------------------------------------------------
(* get_subsidy(&self, height), called for a height and then for greater    *)
(* ones.  `arg` is [height, subsidy_halving_interval], the second being    *)
(* self.parameters.subsidy_halving_interval; `hist` holds the call before. *)

\* a / d, the integer part, for a divisor d <= 16
Div(a, d) ==
    LET mid == (a[1] % d) * COIN_VALUE + a[2]
        lo  == (mid % d) * COIN_VALUE + a[3]
    IN  <<a[1] \div d, mid \div d, lo \div d>>

RECURSIVE Shr(_, _)
\* a >> k on a u64, for k < 64, four bits at a time
Shr(a, k) == IF k >= 4 THEN Shr(Div(a, 16), k - 4) ELSE Div(a, 2 ^ k)

\* The same function giving up at 32 halvings, the width of `halvings`
get_subsidy_zero_from_32(height, subsidy_halving_interval) ==
    LET halvings == height \div subsidy_halving_interval
    IN  IF halvings >= 32 THEN ZERO
        ELSE Shr(Sats(50, 0), halvings)

get_subsidy(height, subsidy_halving_interval) ==
    LET halvings == height \div subsidy_halving_interval
    IN  IF halvings >= 64 THEN ZERO
        ELSE Shr(Sats(50, 0), halvings)

\* The heights reach this many halvings
MaxHalvings == 65

\* 210,000 blocks (mainnet) and 150 (regtest)
HalvingIntervals == {210000, 150}

\* The first and the last height of every halving period up to MaxHalvings, and
\* the greatest height a 32-bit signed integer holds
Heights(interval) ==
    {k * interval + d : k \in 0..MaxHalvings, d \in {0, interval - 1}} \cup {2147483647}

InitSubsidy ==
    /\ node = <<>>
    /\ pc = "call"
    /\ arg \in {[height |-> h, subsidy_halving_interval |-> i] :
                    h \in {0, 1}, i \in HalvingIntervals}
    /\ hist = <<>>
    /\ utxos = <<>>
    /\ subsidy = <<>>
    /\ n = 0
    /\ fee = ZERO
    /\ wu = 0
    /\ tx0 = <<>>
    /\ result = Running
    /\ wrapped = FALSE

CallGetSubsidy ==
    /\ pc = "call"
    /\ pc' = "ret"
    /\ result' = get_subsidy(arg.height, arg.subsidy_halving_interval)
    /\ UNCHANGED <<utxos, subsidy, n, fee, wu, tx0, wrapped, hist, arg, node>>

\* The next call is for a greater height
GreaterHeight ==
    /\ pc = "ret"
    /\ \E h \in Heights(arg.subsidy_halving_interval) :
           /\ h > arg.height
           /\ arg' = [arg EXCEPT !.height = h]
    /\ hist' = <<[height |-> arg.height, subsidy |-> result]>>
    /\ pc' = "call"
    /\ UNCHANGED <<utxos, subsidy, n, fee, wu, tx0, result, wrapped, node>>

NextSubsidy == CallGetSubsidy \/ GreaterHeight

SpecSubsidy == InitSubsidy /\ [][NextSubsidy]_vars

\* a * d, not truncated, for a factor d <= 16
Mul(a, d) ==
    LET lo  == a[3] * d
        mid == a[2] * d + (lo \div COIN_VALUE)
    IN  <<a[1] * d + (mid \div COIN_VALUE), mid % COIN_VALUE, lo % COIN_VALUE>>

RECURSIVE Shl(_, _)
\* a * 2^k, not truncated, four bits at a time
Shl(a, k) == IF k >= 4 THEN Shl(Mul(a, 16), k - 4) ELSE Mul(a, 2 ^ k)

\* C12: with h = height / subsidy_halving_interval, get_subsidy returns
\* (50 * 10^8) >> h, the integer part of 5,000,000,000 / 2^h, when h <= 63 and 0
\* when h >= 64 (at 0, 1, 32, 63, 64 halvings: 50 * 10^8, 25 * 10^8, 1, 0, 0),
\* and never more than it returned for a smaller height.
C12_SubsidySchedule ==
    pc = "ret" =>
        LET h == arg.height \div arg.subsidy_halving_interval
        IN  /\ h <= 63 => /\ Le(Shl(result, h), Sats(50, 0))
                          /\ Lt(Sats(50, 0), Shl(Plus(result, Sats(0, 1)), h))
            /\ h >= 64 => result = ZERO
            /\ h = 0 => result = Sats(50, 0)
            /\ h = 1 => result = Sats(25, 0)
            /\ h = 32 => result = Sats(0, 1)
            /\ h = 63 => result = ZERO
            /\ hist # <<>> => Le(result, hist[1].subsidy)

\* The subsidy was 1 satoshi at the last height of the 32nd halving and is 0 at
\* the first height of the 64th
C12_Witness ==
    /\ pc = "ret"
    /\ arg = [height |-> 64 * 210000, subsidy_halving_interval |-> 210000]
    /\ result = ZERO
    /\ hist = <<[height |-> 33 * 210000 - 1, subsidy |-> Sats(0, 1)]>>

---------------------------------------------------------------------------
(* update_acc(acc, block, height, proof, del_hashes).  A Block is          *)
(* [block_hash, txdata] with `block_hash` what block_hash() returns for    *)
(* it.  A leaf hash is the record of what get_leaf_hashes feeds the hash   *)
(* (a collision-free hash: distinct records are distinct leaves).  A Stump *)
(* is [leaves, roots]: the number of leaves ever added, and the roots as   *)
(* the sequence of the leaves the forest commits to.  Stump::modify is     *)
(* rustreexo's: whether a proof verifies the deleted leaves under the      *)
(* roots is the library's verdict, and a Proof is [targets, verifies]: the *)
(* leaves it is for, and that verdict for the Stump and the del_hashes it  *)
(* is handed in with.                                                      *)

Block(block_hash, txdata) == [block_hash |-> block_hash, txdata |-> txdata]

Stump(leaves, roots) == [leaves |-> leaves, roots |-> roots]

Proof(targets, verifies) == [targets |-> targets, verifies |-> verifies]

\* Ok(stump)
OkStump(stump) == [kind |-> "Ok", value |-> stump]

\* Ok((stump, update_data)) and Err(reason) of Stump::modify
ModifyOk(stump, update_data) == [kind |-> "Ok", value |-> <<stump, update_data>>]

ModifyErr(reason) == [kind |-> "Err", reason |-> reason]

Range(seq) == {seq[i] : i \in 1..Len(seq)}

\* The same function with the limit included (`>= 10_000`)
is_unspendable_from_10000(script) ==
    IF script.len >= 10000 THEN TRUE
    ELSE IF script.len # 0 /\ script.b0 = 106 THEN TRUE
    ELSE FALSE

\* 0x6a = 106 is OP_RETURN
is_unspendable(script) ==
    IF script.len > 10000 THEN TRUE
    ELSE IF script.len # 0 /\ script.b0 = 106 THEN TRUE
    ELSE FALSE

\* `height` is a u32 as <<high, low>>, standing for high * 65536 + low.
\* header_code is height << 1, which drops the top bit of height, with bit 0
\* set for a coinbase
get_leaf_hashes(transaction, vout, height, block_hash) ==
    LET header_code == <<(height[1] * 2 + (height[2] * 2) \div 65536) % 65536,
                         (height[2] * 2) % 65536>>
        utxo == transaction.output[vout + 1]
    IN  [block_hash  |-> block_hash,
         txid        |-> compute_txid(transaction),
         vout        |-> vout,
         header_code |-> IF is_coinbase(transaction)
                         THEN <<header_code[1], header_code[2] + 1>>
                         ELSE header_code,
         utxo        |-> utxo]

\* The HashSet of lines 318-323: every previous_output of the block
BlockInputs(txdata) ==
    UNION {{txdata[t].input[i].previous_output : i \in 1..Len(txdata[t].input)} :
               t \in 1..Len(txdata)}

RECURSIVE OutputLeaves(_, _, _, _, _)
\* for (i, output) in transaction.output.iter().enumerate() { .. }, from index i
OutputLeaves(transaction, i, block_inputs, height, block_hash) ==
    IF i >= Len(transaction.output) THEN <<>>
    ELSE (IF /\ ~is_unspendable(transaction.output[i + 1].script_pubkey)
             /\ OutPoint(compute_txid(transaction), i) \notin block_inputs
          THEN <<get_leaf_hashes(transaction, i, height, block_hash)>>
          ELSE <<>>)
         \o OutputLeaves(transaction, i + 1, block_inputs, height, block_hash)

RECURSIVE LeafHashes(_, _, _, _)
\* for transaction in block.txdata.iter() { .. }   (lines 326-339)
LeafHashes(txdata, block_inputs, height, block_hash) ==
    IF txdata = <<>> THEN <<>>
    ELSE OutputLeaves(txdata[1], 0, block_inputs, height, block_hash)
         \o LeafHashes(Tail(txdata), block_inputs, height, block_hash)

\* Stump::modify(&self, utxos, del_hashes, proof): an error when the proof
\* does not verify under the current roots, or the new Stump and the update
\* data: the additions counted in `leaves`, the deleted leaves gone from the
\* roots and the additions committed to after them
modify(acc, hashes, del_hashes, proof) ==
    IF ~proof.verifies THEN ModifyErr("proof does not verify")
    ELSE ModifyOk(Stump(acc.leaves + Len(hashes),
                        SelectSeq(acc.roots, LAMBDA leaf : leaf \notin Range(del_hashes))
                        \o hashes),
                  [added |-> hashes, deleted |-> del_hashes])

\* The conversion `?` applies to the error of modify
BlockchainErrorFrom(error) == Err("InvalidProof")

\* The same function going on with the Stump it was given when modify fails:
\*   match acc.modify(..) { Ok((acc, _)) => Ok(acc), Err(_) => Ok(acc.clone()) }
update_acc_ignoring_the_error(acc, block, height, proof, del_hashes) ==
    LET hashes   == LeafHashes(block.txdata, BlockInputs(block.txdata), height, block.block_hash)
        modified == modify(acc, hashes, del_hashes, proof)
    IN  [res    |-> IF modified.kind = "Ok" THEN OkStump(modified.value[1]) ELSE OkStump(acc),
         hashes |-> hashes]

\* `res` is the Result and `hashes` the additions handed to modify.  Line 346:
\* `?` returns the converted error of modify, `.0` is the Stump of its pair
update_acc(acc, block, height, proof, del_hashes) ==
    LET hashes   == LeafHashes(block.txdata, BlockInputs(block.txdata), height, block.block_hash)
        modified == modify(acc, hashes, del_hashes, proof)
    IN  [res    |-> IF modified.kind = "Ok" THEN OkStump(modified.value[1])
                    ELSE BlockchainErrorFrom(modified),
         hashes |-> hashes]

\* OP_RETURN and 18 bytes; no byte; 10,000 and 10,001 bytes
OpReturn == Script(20, 106, 18, 0)

EmptyScript == Script(0, 0, 0, 0)

AccScripts == {P2PKH, OpReturn, EmptyScript, Script(10000, 118, 0, 0), Script(10001, 118, 0, 0)}

AccOutputLists ==
    {<<TxOut(Sats(0, 1), script)>> : script \in AccScripts}
        \cup {<<TxOut(Sats(0, 1), P2PKH), TxOut(Sats(0, 1), P2PKH)>>}

\* The transaction at index t has one input: the null outpoint (t = 0) or
\* outpoint A, or the first output of another transaction of the block (an
\* earlier one or a later one), or the second output of the first
AccOutPoints(t) ==
    (IF t = 0 THEN {NullOutPoint} ELSE {OutPointA, OutPoint(TxidAt(0), 1)})
        \cup {OutPoint(TxidAt(u), 0) : u \in (0..MaxTxs - 1) \ {t}}

AccTxs(t) ==
    {Transaction(TxidAt(t), <<TxIn(o, CoinbaseSig)>>, outs) :
        o \in AccOutPoints(t), outs \in AccOutputLists}

RECURSIVE AccTxLists(_)
\* The transaction lists of k transactions
AccTxLists(k) ==
    IF k = 0 THEN {<<>>}
    ELSE {Append(txs, transaction) : txs \in AccTxLists(k - 1), transaction \in AccTxs(k - 1)}

\* A leaf of an earlier block
OldLeaf(k) ==
    [block_hash |-> 90, txid |-> k, vout |-> 0, header_code |-> <<0, 2>>,
     utxo |-> TxOut(Sats(0, 1), P2PKH)]

\* The Stump the calls are made with: it holds the old leaves 1 and 2
AccStump == Stump(2, <<OldLeaf(1), OldLeaf(2)>>)

\* The leaves to delete are none, leaf 1 or leaf 3 (which the Stump does not
\* hold); the proof is for none or for leaf 1, and verifies when it is for
\* the leaves to delete and the Stump holds them; the height is 1 or
\* 2^31 + 1, whose top bit `<< 1` drops
AccArgs ==
    {[acc |-> AccStump, block |-> Block(91, txs), height |-> height,
      proof |-> Proof(targets, targets = Range(dels) /\ Range(dels) \subseteq Range(AccStump.roots)),
      del_hashes |-> dels] :
        txs \in UNION {AccTxLists(k) : k \in 0..MaxTxs},
        height \in {<<0, 1>>, <<32768, 1>>},
        targets \in {{}, {OldLeaf(1)}},
        dels \in {<<>>, <<OldLeaf(1)>>, <<OldLeaf(3)>>}}

\* `hist` is here the Stump as it was at the first call, the additions of the
\* last call and the Results of all calls
InitAcc ==
    /\ node = <<>>
    /\ pc = "call"
    /\ arg \in AccArgs
    /\ hist = [acc |-> arg.acc, hashes |-> <<>>, results |-> <<>>]
    /\ utxos = <<>>
    /\ subsidy = <<>>
    /\ n = 0
    /\ fee = ZERO
    /\ wu = 0
    /\ tx0 = <<>>
    /\ result = Running
    /\ wrapped = FALSE

\* A call of update_acc with the arguments as they are.  `acc` is a shared
\* reference (`&Stump`): the function has no way to write to the caller's Stump
CallUpdateAcc ==
    /\ pc = "call" /\ n < MaxCalls
    /\ \E o \in {update_acc(arg.acc, arg.block, arg.height, arg.proof, arg.del_hashes)} :
           /\ result' = o.res
           /\ hist' = [hist EXCEPT !.hashes = o.hashes, !.results = Append(@, o.res)]
    /\ n' = n + 1
    /\ UNCHANGED <<pc, utxos, subsidy, fee, wu, tx0, wrapped, arg, node>>

NextAcc == CallUpdateAcc

SpecAcc == InitAcc /\ [][NextAcc]_vars

\* The outputs of the block as (transaction index from 1, output index from 0)
Positions ==
    UNION {{<<t, i>> : i \in 0..Len(arg.block.txdata[t].output) - 1} :
               t \in 1..Len(arg.block.txdata)}

\* The output at p is named by an input of one of the transactions at the indices in U
NamedByTxs(p, U) ==
    \E u \in U : \E i \in 1..Len(arg.block.txdata[u].input) :
        arg.block.txdata[u].input[i].previous_output
            = OutPoint(compute_txid(arg.block.txdata[p[1]]), p[2])

\* At most 10,000 bytes, and no first byte 0x6a
Spendable(p) ==
    LET script == arg.block.txdata[p[1]].output[p[2] + 1].script_pubkey
    IN  script.len <= 10000 /\ ~(script.len > 0 /\ script.b0 = 106)

\* The index of the transaction a leaf was made from
TxIndexOf(leaf) == CHOOSE t \in 1..Len(arg.block.txdata) : arg.block.txdata[t].txid = leaf.txid

\* The additions are one leaf for each position of S and nothing else, in
\* (transaction index, output index) order
AdditionsAre(S) ==
    /\ Len(hist.hashes) = Cardinality(S)
    /\ \A k \in 1..Len(hist.hashes) :
           \E p \in S : hist.hashes[k]
               = get_leaf_hashes(arg.block.txdata[p[1]], p[2], arg.height, arg.block.block_hash)
    /\ \A k, l \in 1..Len(hist.hashes) :
           k < l => \/ TxIndexOf(hist.hashes[k]) < TxIndexOf(hist.hashes[l])
                    \/ /\ TxIndexOf(hist.hashes[k]) = TxIndexOf(hist.hashes[l])
                       /\ hist.hashes[k].vout < hist.hashes[l].vout

\* C13 as stated: the additions of update_acc are, in (transaction index,
\* output index) order, one leaf for exactly the outputs that are spendable and
\* not spent by a later transaction of the same block.
C13_NotSpentLater ==
    n > 0 => AdditionsAre({p \in Positions :
                 Spendable(p) /\ ~NamedByTxs(p, p[1] + 1..Len(arg.block.txdata))})

\* C13 amended: the additions of update_acc are, in (transaction index, output
\* index) order, one leaf for exactly the outputs that are spendable and that
\* no input of any transaction of the same block names, whatever the position
\* of that transaction; so an unspendable output and an output spent by a later
\* transaction are never among them.
C13_NotSpentInBlock ==
    n > 0 =>
        /\ AdditionsAre({p \in Positions :
               Spendable(p) /\ ~NamedByTxs(p, 1..Len(arg.block.txdata))})
        /\ \A k \in 1..Len(hist.hashes) :
               LET p == <<TxIndexOf(hist.hashes[k]), hist.hashes[k].vout>>
               IN  Spendable(p) /\ ~NamedByTxs(p, p[1] + 1..Len(arg.block.txdata))

\* update_acc has run on a block with an output spent by a later transaction,
\* an unspendable output and an output that is listed
C13_Witness ==
    /\ pc = "call" /\ n > 0 /\ hist.hashes # <<>>
    /\ \E p \in Positions : Spendable(p) /\ NamedByTxs(p, p[1] + 1..Len(arg.block.txdata))
    /\ \E p \in Positions : ~Spendable(p)

---------------------------------------------------------------------------
(* The RPC methods of                                                      *)
(*   crates/floresta-node/src/json_rpc/network.rs                          *)
(* First the values they handle and the address parser they call.          *)

\* Option<T>
None == [some |-> FALSE]

Some(value) == [some |-> TRUE, value |-> value]

\* Ok(value)
OkValue(value) == [kind |-> "Ok", value |-> value]

\* IpAddr::V4 with its four octets, IpAddr::V6 with its eight segments
IpV4(octets) == [family |-> "V4", octets |-> octets]

IpV6(segments) == [family |-> "V6", segments |-> segments]

\* Of a SocketAddr the methods read ip() and port() only
SocketAddr(ip, port) == [ip |-> ip, port |-> port]

PeerInfo(id, address) == [id |-> id, address |-> address]

(* str::parse::<SocketAddr>() and str::parse::<IpAddr>() of the standard    *)
(* library.  A string is the sequence of its characters; the parser state  *)
(* is the rest of the string.  A read returns `some`, its `value` and the  *)
(* `state` after it; a read that fails leaves the state where it was.      *)

LowerDigits == <<"0", "1", "2", "3", "4", "5", "6", "7", "8", "9", "a", "b", "c", "d", "e", "f">>

UpperDigits == <<"0", "1", "2", "3", "4", "5", "6", "7", "8", "9", "A", "B", "C", "D", "E", "F">>

\* char::to_digit(radix), -1 for None
ToDigit(c, radix) ==
    IF \E d \in 1..radix : LowerDigits[d] = c \/ UpperDigits[d] = c
    THEN (CHOOSE d \in 1..radix : LowerDigits[d] = c \/ UpperDigits[d] = c) - 1
    ELSE -1

Read(value, state) == [some |-> TRUE, value |-> value, state |-> state]

NoRead(state) == [some |-> FALSE, state |-> state]

\* Parser::read_given_char
ReadGivenChar(state, target) ==
    IF state # <<>> /\ state[1] = target THEN Read(target, Tail(state)) ELSE NoRead(state)

RECURSIVE ReadDigits(_, _, _, _, _)
\* The body of the loop of read_number for the digit read (-1: none).  `number`,
\* the `result` of the loop, is <<high, low>>, standing for high * 65536 + low;
\* the read fails when it passes 32 bits or `max_digits` digits (0: no limit)
ReadDigit(state, radix, max_digits, number, digit_count, digit) ==
    IF digit < 0
    THEN [some |-> TRUE, value |-> number, digit_count |-> digit_count, state |-> state]
    ELSE IF \/ number[1] * radix + (number[2] * radix + digit) \div 65536 > 65535
            \/ (max_digits # 0 /\ digit_count + 1 > max_digits)
    THEN NoRead(state)
    ELSE ReadDigits(Tail(state), radix, max_digits,
                    <<number[1] * radix + (number[2] * radix + digit) \div 65536,
                      (number[2] * radix + digit) % 65536>>,
                    digit_count + 1)

\* The loop of read_number
ReadDigits(state, radix, max_digits, number, digit_count) ==
    ReadDigit(state, radix, max_digits, number, digit_count,
              IF state = <<>> THEN -1 ELSE ToDigit(state[1], radix))

\* The end of read_number: the digits read are a number of `bits` bits
NumberOf(state, allow_zero_prefix, bits, digits) ==
    IF ~digits.some THEN NoRead(state)
    ELSE IF digits.digit_count = 0 THEN NoRead(state)
    ELSE IF ~allow_zero_prefix /\ state[1] = "0" /\ digits.digit_count > 1
    THEN NoRead(state)
    ELSE IF bits < 32 /\ (digits.value[1] # 0 \/ digits.value[2] >= 2 ^ bits)
    THEN NoRead(state)
    ELSE Read(digits.value, digits.state)

\* Parser::read_number::<T>(radix, max_digits, allow_zero_prefix), T of `bits`
\* bits; the value is <<high, low>>
ReadNumber(state, radix, max_digits, allow_zero_prefix, bits) ==
    NumberOf(state, allow_zero_prefix, bits, ReadDigits(state, radix, max_digits, <<0, 0>>, 0))

\* Parser::read_separator before it reads what follows the separator
ReadSeparator(state, sep, index) ==
    IF index > 0 THEN ReadGivenChar(state, sep) ELSE Read(sep, state)

RECURSIVE ReadOctets(_, _, _)
OctetRead(state, i, groups, octet) ==
    IF ~octet.some THEN NoRead(state)
    ELSE ReadOctets(octet.state, i + 1, Append(groups, octet.value[2]))

ReadOctet(state, i, groups, sep) ==
    IF ~sep.some THEN NoRead(state)
    ELSE OctetRead(state, i, groups, ReadNumber(sep.state, 10, 3, FALSE, 8))

\* The loop of read_ipv4_addr from group i
ReadOctets(state, i, groups) ==
    IF i = 4 THEN Read(groups, state)
    ELSE ReadOctet(state, i, groups, ReadSeparator(state, ".", i))

Ipv4AddrOf(state, octets) ==
    IF octets.some THEN Read(IpV4(octets.value), octets.state) ELSE NoRead(state)

\* Parser::read_ipv4_addr
ReadIpv4Addr(state) == Ipv4AddrOf(state, ReadOctets(state, 0, <<>>))

RECURSIVE ReadGroups(_, _, _, _)
\* A step of read_groups: a trailing IPv4 address if one is read, else a group
GroupRead(state, limit, i, groups, v4, group) ==
    IF v4.some
    THEN [groups |-> groups \o <<v4.value.octets[1] * 256 + v4.value.octets[2],
                                 v4.value.octets[3] * 256 + v4.value.octets[4]>>,
          ipv4 |-> TRUE, state |-> v4.state]
    ELSE IF group.some
    THEN ReadGroups(group.state, limit, i + 1, Append(groups, group.value[2]))
    ELSE [groups |-> groups, ipv4 |-> FALSE, state |-> state]

ReadGroup(state, limit, i, groups, sep) ==
    IF ~sep.some THEN [groups |-> groups, ipv4 |-> FALSE, state |-> state]
    ELSE GroupRead(state, limit, i, groups,
                   IF i < limit - 1 THEN ReadIpv4Addr(sep.state) ELSE NoRead(state),
                   ReadNumber(sep.state, 16, 4, TRUE, 16))

\* read_groups of read_ipv6_addr from group i of `limit`: the groups read,
\* and whether the last two are an embedded IPv4 address
ReadGroups(state, limit, i, groups) ==
    IF i >= limit THEN [groups |-> groups, ipv4 |-> FALSE, state |-> state]
    ELSE ReadGroup(state, limit, i, groups, ReadSeparator(state, ":", i))

\* read_given_char(':')?; read_given_char(':')?
ReadTwoColons(state) ==
    IF Len(state) >= 2 /\ state[1] = ":" /\ state[2] = ":"
    THEN Read("::", Tail(Tail(state)))
    ELSE NoRead(state)

Ipv6AddrOf(head, tail) ==
    Read(IpV6(head.groups \o [k \in 1..8 - Len(head.groups) - Len(tail.groups) |-> 0]
                          \o tail.groups),
         tail.state)

Ipv6Tail(state, head, colons) ==
    IF ~colons.some THEN NoRead(state)
    ELSE Ipv6AddrOf(head, ReadGroups(colons.state, 8 - (Len(head.groups) + 1), 0, <<>>))

Ipv6Head(state, head) ==
    IF Len(head.groups) = 8 THEN Read(IpV6(head.groups), head.state)
    ELSE IF head.ipv4 THEN NoRead(state)
    ELSE Ipv6Tail(state, head, ReadTwoColons(head.state))

\* Parser::read_ipv6_addr
ReadIpv6Addr(state) == Ipv6Head(state, ReadGroups(state, 8, 0, <<>>))

PortOf(state, port) ==
    IF port.some THEN Read(port.value[2], port.state) ELSE NoRead(state)

PortAfter(state, colon) ==
    IF ~colon.some THEN NoRead(state)
    ELSE PortOf(state, ReadNumber(colon.state, 10, 0, TRUE, 16))

\* Parser::read_port
ReadPort(state) == PortAfter(state, ReadGivenChar(state, ":"))

ScopeIdAfter(state, percent) ==
    IF ~percent.some THEN NoRead(state)
    ELSE ReadNumber(percent.state, 10, 0, TRUE, 32)

ScopeIdOf(state, scope) == IF scope.some THEN scope ELSE NoRead(state)

\* Parser::read_scope_id
ReadScopeId(state) == ScopeIdOf(state, ScopeIdAfter(state, ReadGivenChar(state, "%")))

SocketAddrOf(state, ip, port) ==
    IF port.some THEN Read(SocketAddr(ip.value, port.value), port.state) ELSE NoRead(state)

SocketAddrV4Port(state, ip) ==
    IF ~ip.some THEN NoRead(state) ELSE SocketAddrOf(state, ip, ReadPort(ip.state))

\* Parser::read_socket_addr_v4
ReadSocketAddrV4(state) == SocketAddrV4Port(state, ReadIpv4Addr(state))

SocketAddrV6Port(state, ip, close) ==
    IF ~close.some THEN NoRead(state) ELSE SocketAddrOf(state, ip, ReadPort(close.state))

\* read_scope_id().unwrap_or(0), then the closing bracket
SocketAddrV6Close(state, ip, scope) ==
    SocketAddrV6Port(state, ip, ReadGivenChar(scope.state, "]"))

SocketAddrV6Scope(state, ip) ==
    IF ~ip.some THEN NoRead(state) ELSE SocketAddrV6Close(state, ip, ReadScopeId(ip.state))

SocketAddrV6Ip(state, open) ==
    IF ~open.some THEN NoRead(state) ELSE SocketAddrV6Scope(state, ReadIpv6Addr(open.state))

\* Parser::read_socket_addr_v6
ReadSocketAddrV6(state) == SocketAddrV6Ip(state, ReadGivenChar(state, "["))

\* Option::or_else
OrElse(first, second) == IF first.some THEN first ELSE second

\* Parser::parse_with: the read has to take the whole string
ParseWith(read) ==
    IF read.some /\ read.state = <<>> THEN OkValue(read.value) ELSE Err("AddrParseError")

\* node_address.parse::<SocketAddr>()
ParseSocketAddr(node_address) ==
    ParseWith(OrElse(ReadSocketAddrV4(node_address), ReadSocketAddrV6(node_address)))

\* node_address.parse::<IpAddr>()
ParseIpAddr(node_address) ==
    ParseWith(OrElse(ReadIpv4Addr(node_address), ReadIpv6Addr(node_address)))

---------------------------------------------------------------------------
(* The requests a node answers.  The node behind `self.node` is the        *)
(* environment: what it answers to a call is an input, drawn when the      *)
(* request that made the call is resumed.  An RPC method is an `async fn`  *)
(* that is suspended at each `.await` of a call to the node, so a method   *)
(* is one step up to its first call and one step from each answer on, and  *)
(* the steps of two requests interleave.                                   *)
(*                                                                         *)
(* `pc`, `arg` and `result` are the disconnect_node request; `hist` is     *)
(* one other request (add_node, ping or get_peer_info) on the same RpcImpl;*)
(* `node.calls` are the calls the node has received, in order, each with   *)
(* the request it came from and the answer once it is given.               *)

Pending == [kind |-> "Pending"]

NodeCall(from, call, args) ==
    [from |-> from, call |-> call, args |-> args, returned |-> Pending]

\* The method has returned `res`
Returned(res) == [pc |-> "ret", res |-> res, calls |-> <<>>]

\* The method is suspended at the `.await` of `call`
Awaiting(from, call, args) ==
    [pc |-> call, res |-> Running, calls |-> <<NodeCall(from, call, args)>>]

\* peer_info.iter().find(|peer| peer.id == node_id)
Find(peer_info, node_id) ==
    IF \E i \in 1..Len(peer_info) : peer_info[i].id = node_id
    THEN Some(peer_info[CHOOSE i \in 1..Len(peer_info) :
                  /\ peer_info[i].id = node_id
                  /\ \A j \in 1..i - 1 : peer_info[j].id # node_id])
    ELSE None

\* The call of disconnect_peer for the peer at `address`
DisconnectPeer(address) ==
    Awaiting("disconnect_node", "disconnect_peer", <<address.ip, address.port>>)

\* (false, None): the address has been parsed
DisconnectByAddress(socket_addr) ==
    IF socket_addr.kind # "Ok" THEN Returned(Err("InvalidAddress"))
    ELSE DisconnectPeer(socket_addr.value)

\* disconnect_node up to its first call of the node
disconnect_node(node_address, node_id) ==
    IF node_address # <<>> /\ ~node_id.some
    THEN DisconnectByAddress(ParseSocketAddr(node_address))
    ELSE IF node_address = <<>> /\ node_id.some
    THEN Awaiting("disconnect_node", "get_peer_info", <<>>)
    ELSE Returned(Err("InvalidDisconnectNodeCommand"))

\* (true, Some(node_id)): the peer has been looked up
DisconnectById(peer) ==
    IF ~peer.some THEN Returned(Err("PeerNotFound")) ELSE DisconnectPeer(peer.value.address)

\* disconnect_node from the answer of get_peer_info to its next call of the node
disconnect_node_after_get_peer_info(node_id, get_peer_info) ==
    IF get_peer_info.kind # "Ok" THEN Returned(Err("Node"))
    ELSE DisconnectById(Find(get_peer_info.value, node_id.value))

\* The same lines taking any answer of disconnect_peer but an error for a success
disconnect_node_after_any_answer(disconnect_peer) ==
    IF disconnect_peer.kind # "Ok" THEN Returned(Err("Node"))
    ELSE Returned(OkValue("null"))

\* disconnect_node from the answer of disconnect_peer
disconnect_node_after_disconnect_peer(disconnect_peer) ==
    IF disconnect_peer.kind # "Ok" THEN Returned(Err("Node"))
    ELSE IF ~disconnect_peer.value THEN Returned(Err("PeerNotFound"))
    ELSE Returned(OkValue("null"))

\* The default P2P port of the network
default_port(network) ==
    CASE network = "Bitcoin"  -> 8333
      [] network = "Signet"   -> 38333
      [] network = "Testnet"  -> 18333
      [] network = "Testnet4" -> 48333
      [] network = "Regtest"  -> 18444

\* add_node once the address and the port are known
AddNodeCommand(addr, port, command, v2transport) ==
    CASE command = "add"    -> Awaiting("add_node", "add_peer", <<addr, port, v2transport>>)
      [] command = "remove" -> Awaiting("add_node", "remove_peer", <<addr, port>>)
      [] command = "onetry" -> Awaiting("add_node", "onetry_peer", <<addr, port, v2transport>>)
      [] OTHER              -> Returned(Err("InvalidAddnodeCommand"))

\* add_node once the address has been parsed, as a socket address and as an
\* IP address
AddNodeParsed(network, socket_addr, ip, command, v2transport) ==
    IF socket_addr.kind = "Ok"
    THEN AddNodeCommand(socket_addr.value.ip, socket_addr.value.port, command, v2transport)
    ELSE IF ip.kind = "Ok"
    THEN AddNodeCommand(ip.value, default_port(network), command, v2transport)
    ELSE Returned(Err("InvalidAddress"))

\* add_node up to its call of the node
add_node(network, node_address, command, v2transport) ==
    AddNodeParsed(network, ParseSocketAddr(node_address), ParseIpAddr(node_address),
                  command, v2transport)

\* add_node from the answer of the node, which it does not read
add_node_after_answer(answer) == Returned(OkValue("null"))

\* ping and get_peer_info from the answer of the node
ping_after_answer(answer) ==
    IF answer.kind # "Ok" THEN Returned(Err("Node")) ELSE Returned(answer)

get_peer_info_after_answer(answer) ==
    IF answer.kind # "Ok" THEN Returned(Err("Node")) ELSE Returned(answer)

\* "", "peer", "1.1.1.1", "1.1.1.1:8333", "1.1.1.1:08333", "[::1]:18444"
NodeAddresses ==
    {<<>>,
     <<"p", "e", "e", "r">>,
     <<"1", ".", "1", ".", "1", ".", "1">>,
     <<"1", ".", "1", ".", "1", ".", "1", ":", "8", "3", "3", "3">>,
     <<"1", ".", "1", ".", "1", ".", "1", ":", "0", "8", "3", "3", "3">>,
     <<"[", ":", ":", "1", "]", ":", "1", "8", "4", "4", "4">>}

\* "9.9.9.9:1", "::1", "[::1", "9.9.9.9"
AddNodeAddresses ==
    {<<"9", ".", "9", ".", "9", ".", "9", ":", "1">>,
     <<":", ":", "1">>,
     <<"[", ":", ":", "1">>,
     <<"9", ".", "9", ".", "9", ".", "9">>}

AddNodeCommands == {"add", "remove", "onetry", "ad"}

NodeIds == {None, Some(1), Some(7)}

Networks == {"Bitcoin", "Regtest"}

Localhost6 == IpV6(<<0, 0, 0, 0, 0, 0, 0, 1>>)

PeerLists ==
    {<<>>,
     <<PeerInfo(0, SocketAddr(IpV4(<<1, 1, 1, 1>>), 8333))>>,
     <<PeerInfo(0, SocketAddr(IpV4(<<1, 1, 1, 1>>), 8333)),
       PeerInfo(1, SocketAddr(Localhost6, 18444))>>,
     <<PeerInfo(1, SocketAddr(Localhost6, 18444)),
       PeerInfo(7, SocketAddr(IpV4(<<2, 2, 2, 2>>), 38333))>>}

\* What the node answers to get_peer_info, and to a call that answers a bool
GetPeerInfoAnswers == {OkValue(peer_info) : peer_info \in PeerLists} \cup {Err("NodeError")}

BoolAnswers == {OkValue(TRUE), OkValue(FALSE), Err("NodeError")}

NoRequest == [pc |-> "idle", res |-> Running]

InitDisconnect ==
    /\ pc = "call"
    /\ arg \in {[network |-> w, node_address |-> a, node_id |-> i] :
                   w \in Networks, a \in NodeAddresses, i \in NodeIds}
    /\ node = [calls |-> <<>>]
    /\ hist = NoRequest
    /\ utxos = <<>>
    /\ subsidy = <<>>
    /\ n = 0
    /\ fee = ZERO
    /\ wu = 0
    /\ tx0 = <<>>
    /\ result = Running
    /\ wrapped = FALSE

\* The call of `from` that the node has not answered
PendingCall(from) ==
    CHOOSE i \in 1..Len(node.calls) :
        node.calls[i].from = from /\ node.calls[i].returned = Pending

\* The calls after the pending call of `from` is answered and `calls` are made
Answered(from, answer, calls) ==
    [node.calls EXCEPT ![PendingCall(from)].returned = answer] \o calls

\* disconnect_node is called and runs to its first call of the node
DisconnectNodeCalled ==
    /\ pc = "call"
    /\ \E o \in {disconnect_node(arg.node_address, arg.node_id)} :
           /\ pc' = o.pc
           /\ result' = o.res
           /\ node' = [node EXCEPT !.calls = @ \o o.calls]
    /\ UNCHANGED <<utxos, subsidy, n, fee, wu, tx0, wrapped, hist, arg>>

\* The node answers get_peer_info and disconnect_node goes on
DisconnectNodeGotPeerInfo ==
    /\ pc = "get_peer_info"
    /\ \E get_peer_info \in GetPeerInfoAnswers :
         \E o \in {disconnect_node_after_get_peer_info(arg.node_id, get_peer_info)} :
           /\ pc' = o.pc
           /\ result' = o.res
           /\ node' = [node EXCEPT
                          !.calls = Answered("disconnect_node", get_peer_info, o.calls)]
    /\ UNCHANGED <<utxos, subsidy, n, fee, wu, tx0, wrapped, hist, arg>>

\* The node answers disconnect_peer and disconnect_node returns
DisconnectNodeGotAnswer ==
    /\ pc = "disconnect_peer"
    /\ \E disconnect_peer \in BoolAnswers :
         \E o \in {disconnect_node_after_disconnect_peer(disconnect_peer)} :
           /\ pc' = o.pc
           /\ result' = o.res
           /\ node' = [node EXCEPT
                          !.calls = Answered("disconnect_node", disconnect_peer, o.calls)]
    /\ UNCHANGED <<utxos, subsidy, n, fee, wu, tx0, wrapped, hist, arg>>

\* add_node is called and runs to its call of the node
AddNodeCalled ==
    /\ hist.pc = "idle"
    /\ \E node_address \in AddNodeAddresses, command \in AddNodeCommands,
          v2transport \in BOOLEAN :
         \E o \in {add_node(arg.network, node_address, command, v2transport)} :
           /\ hist' = [pc |-> IF o.pc = "ret" THEN "ret" ELSE "add_node", res |-> o.res]
           /\ node' = [node EXCEPT !.calls = @ \o o.calls]
    /\ UNCHANGED <<pc, utxos, subsidy, n, fee, wu, tx0, result, wrapped, arg>>

\* The node answers add_peer, remove_peer or onetry_peer and add_node returns
AddNodeGotAnswer ==
    /\ hist.pc = "add_node"
    /\ \E answer \in BoolAnswers :
           /\ hist' = [pc |-> "ret", res |-> add_node_after_answer(answer).res]
           /\ node' = [node EXCEPT !.calls = Answered("add_node", answer, <<>>)]
    /\ UNCHANGED <<pc, utxos, subsidy, n, fee, wu, tx0, result, wrapped, arg>>

\* ping is called and calls the node
PingCalled ==
    /\ hist.pc = "idle"
    /\ hist' = [pc |-> "ping", res |-> Running]
    /\ node' = [node EXCEPT !.calls = Append(@, NodeCall("ping", "ping", <<>>))]
    /\ UNCHANGED <<pc, utxos, subsidy, n, fee, wu, tx0, result, wrapped, arg>>

\* The node answers ping and ping returns
PingGotAnswer ==
    /\ hist.pc = "ping"
    /\ \E answer \in BoolAnswers :
           /\ hist' = [pc |-> "ret", res |-> ping_after_answer(answer).res]
           /\ node' = [node EXCEPT !.calls = Answered("ping", answer, <<>>)]
    /\ UNCHANGED <<pc, utxos, subsidy, n, fee, wu, tx0, result, wrapped, arg>>

\* get_peer_info is called and calls the node
GetPeerInfoCalled ==
    /\ hist.pc = "idle"
    /\ hist' = [pc |-> "get_peer_info", res |-> Running]
    /\ node' = [node EXCEPT
                   !.calls = Append(@, NodeCall("get_peer_info", "get_peer_info", <<>>))]
    /\ UNCHANGED <<pc, utxos, subsidy, n, fee, wu, tx0, result, wrapped, arg>>

\* The node answers get_peer_info and get_peer_info returns
GetPeerInfoGotAnswer ==
    /\ hist.pc = "get_peer_info"
    /\ \E answer \in GetPeerInfoAnswers :
           /\ hist' = [pc |-> "ret", res |-> get_peer_info_after_answer(answer).res]
           /\ node' = [node EXCEPT !.calls = Answered("get_peer_info", answer, <<>>)]
    /\ UNCHANGED <<pc, utxos, subsidy, n, fee, wu, tx0, result, wrapped, arg>>

NextDisconnect ==
    \/ DisconnectNodeCalled
    \/ DisconnectNodeGotPeerInfo
    \/ DisconnectNodeGotAnswer
    \/ AddNodeCalled
    \/ AddNodeGotAnswer
    \/ PingCalled
    \/ PingGotAnswer
    \/ GetPeerInfoCalled
    \/ GetPeerInfoGotAnswer

SpecDisconnect == InitDisconnect /\ [][NextDisconnect]_vars

\* The calls the node has received from disconnect_node
CallsOfDisconnectNode(call) ==
    {i \in 1..Len(node.calls) :
        node.calls[i].from = "disconnect_node" /\ node.calls[i].call = call}

\* C17: disconnect_node takes a non-empty address or a peer id, not both and
\* not neither: otherwise it returns InvalidDisconnectNodeCommand and the node
\* receives no call from it; given only an id that no entry of the answer of
\* get_peer_info has, it returns PeerNotFound and disconnect_peer is not
\* called; it returns Ok(null) only when disconnect_peer answered true, and
\* PeerNotFound when it answered false; whatever other requests run meanwhile.
C17_DisconnectNode ==
    pc = "ret" =>
        LET with_address == arg.node_address # <<>>
            with_id      == arg.node_id # None
        IN  /\ (with_address <=> with_id) =>
                   /\ result = Err("InvalidDisconnectNodeCommand")
                   /\ \A i \in 1..Len(node.calls) : node.calls[i].from # "disconnect_node"
            /\ ~(with_address <=> with_id) => result # Err("InvalidDisconnectNodeCommand")
            /\ (/\ ~with_address /\ with_id
                /\ \E i \in CallsOfDisconnectNode("get_peer_info") :
                       /\ node.calls[i].returned.kind = "Ok"
                       /\ \A j \in 1..Len(node.calls[i].returned.value) :
                              node.calls[i].returned.value[j].id # arg.node_id.value) =>
                   /\ result = Err("PeerNotFound")
                   /\ CallsOfDisconnectNode("disconnect_peer") = {}
            /\ result.kind = "Ok" =>
                   /\ result = OkValue("null")
                   /\ \E i \in CallsOfDisconnectNode("disconnect_peer") :
                          node.calls[i].returned = OkValue(TRUE)
            /\ \A i \in CallsOfDisconnectNode("disconnect_peer") :
                   node.calls[i].returned = OkValue(FALSE) => result = Err("PeerNotFound")

\* A request by id has found the peer, add_node has called the node while it
\* was suspended, and disconnect_peer has answered false
C17_Witness ==
    /\ pc = "ret" /\ arg.node_address = <<>> /\ arg.node_id = Some(1)
    /\ Len(node.calls) = 3
    /\ node.calls[1].from = "disconnect_node" /\ node.calls[1].call = "get_peer_info"
    /\ node.calls[2].from = "add_node" /\ node.calls[2].call = "add_peer"
    /\ node.calls[3].call = "disconnect_peer" /\ node.calls[3].returned = OkValue(FALSE)
    /\ node.calls[3].args = <<Localhost6, 18444>>
    /\ result = Err("PeerNotFound")

---------------------------------------------------------------------------
(* Initial block download (IBD), as the tests of                           *)
(*   crates/floresta-wire/src/p2p_wire/tests/sync_node.rs                  *)
(* set it up: the peers serve the same blocks and give no accumulator      *)
(* snapshots, and the block at one height may be replaced by an invalid    *)
(* one.  The node itself is modelled from its specification: one task per  *)
(* peer answering the selector's requests, the selector the only writer of *)
(* the node's state.                                                       *)

MaxPeers == 3

\* The target height (NUM_BLOCKS in the tests)
MaxHeight == 3

\* headers[height].block_hash()
HeaderHash(height) == 100 + height

\* The number of peers, and the height of the invalid block (0: every block
\* is valid)
SyncArgs ==
    {[peers |-> peers, invalid_height |-> h] : peers \in 1..MaxPeers, h \in 0..MaxHeight}

Peers == 1..arg.peers

\* Peers are partitioned by the header chain they advertise; all advertise
\* the same headers here, so the chosen partition is every peer
SelectPartition(peers) == 1..peers

\* The block validator and the accumulator updater run locally on the block
\* at `height`
Validates(height, invalid_height) == height # invalid_height

\* The same step connecting the block whether it validates or not
AfterBlock_connects_any(state, peer, height, valid) ==
    [state EXCEPT !.inflight = {},
                  !.validation_index = height,
                  !.best_block = <<height, HeaderHash(height)>>]

\* The node after the block at `height` has come from `peer`: connected if it
\* validates, its source disqualified if not
AfterBlock(state, peer, height, valid) ==
    IF valid
    THEN [state EXCEPT !.inflight = {},
                       !.validation_index = height,
                       !.best_block = <<height, HeaderHash(height)>>]
    ELSE [state EXCEPT !.inflight = {},
                       !.disqualified = @ \cup {peer}]

InitSync ==
    /\ pc = "headers"
    /\ arg \in SyncArgs
    /\ node = [headers_from |-> {}, partition |-> {},
               disqualified |-> {}, inflight |-> {},
               validation_index |-> 0, best_block |-> <<0, HeaderHash(0)>>,
               ibd |-> TRUE]
    /\ hist = <<>>
    /\ utxos = <<>>
    /\ subsidy = <<>>
    /\ n = 0
    /\ fee = ZERO
    /\ wu = 0
    /\ tx0 = <<>>
    /\ result = Running
    /\ wrapped = FALSE

\* The headers of a peer arrive; with the last of them the partition is
\* chosen and the download of the blocks starts
ReceiveHeaders ==
    /\ pc = "headers"
    /\ \E p \in Peers \ node.headers_from :
           IF node.headers_from \cup {p} = Peers
           THEN /\ node' = [node EXCEPT !.headers_from = @ \cup {p},
                                        !.partition = SelectPartition(arg.peers)]
                /\ pc' = "ibd"
           ELSE /\ node' = [node EXCEPT !.headers_from = @ \cup {p}]
                /\ pc' = pc
    /\ UNCHANGED <<utxos, subsidy, n, fee, wu, tx0, result, wrapped, hist, arg>>

\* The next block and its proof are requested from a peer not disqualified
RequestBlock ==
    /\ pc = "ibd" /\ node.inflight = {}
    /\ node.validation_index < MaxHeight
    /\ \E p \in node.partition \ node.disqualified :
           node' = [node EXCEPT
                       !.inflight = {[peer |-> p, height |-> node.validation_index + 1]}]
    /\ UNCHANGED <<pc, utxos, subsidy, n, fee, wu, tx0, result, wrapped, hist, arg>>

\* The requested block arrives and is validated
ReceiveBlock ==
    /\ pc = "ibd"
    /\ \E request \in node.inflight :
           node' = AfterBlock(node, request.peer, request.height,
                              Validates(request.height, arg.invalid_height))
    /\ UNCHANGED <<pc, utxos, subsidy, n, fee, wu, tx0, result, wrapped, hist, arg>>

\* The chain is validated up to the target height, or no source is left
FinishIbd ==
    /\ pc = "ibd" /\ node.inflight = {}
    /\ \/ node.validation_index = MaxHeight
       \/ node.partition \ node.disqualified = {}
    /\ node' = [node EXCEPT !.ibd = FALSE]
    /\ pc' = "done"
    /\ UNCHANGED <<utxos, subsidy, n, fee, wu, tx0, result, wrapped, hist, arg>>

NextSync ==
    \/ ReceiveHeaders
    \/ RequestBlock
    \/ ReceiveBlock
    \/ FinishIbd

\* Every peer task answers and the selector task is scheduled: a step that
\* can be taken is taken
SpecSync == InitSync /\ [][NextSync]_vars /\ WF_vars(NextSync)

\* C16: a block failing validation at height h is never connected: the
\* validation index and the best block stay below h, and in the end the
\* validation index is h - 1, the best block the header at h - 1 and the IBD
\* flag cleared; with every block valid, the validation index and the best
\* block end at the target height with the IBD flag cleared.
C16_InvalidBlockNotConnected ==
    /\ [](arg.invalid_height # 0 =>
              /\ node.validation_index < arg.invalid_height
              /\ node.best_block[1] < arg.invalid_height)
    /\ (arg.invalid_height # 0 =>
            <>[](/\ node.validation_index = arg.invalid_height - 1
                 /\ node.best_block = <<arg.invalid_height - 1,
                                        HeaderHash(arg.invalid_height - 1)>>
                 /\ ~node.ibd))
    /\ (arg.invalid_height = 0 =>
            <>[](/\ node.validation_index = MaxHeight
                 /\ node.best_block = <<MaxHeight, HeaderHash(MaxHeight)>>
                 /\ ~node.ibd))

\* The sync from one peer has ended below the invalid block at height 2
C16_Witness ==
    /\ pc = "done" /\ arg.peers = 1 /\ arg.invalid_height = 2
    /\ node.disqualified = {1}
    /\ node.validation_index = 1 /\ node.best_block = <<1, HeaderHash(1)>>
    /\ ~node.ibd

=============================================================================
